---- MODULE Spec2Model ----
(***************************************************************************)
(* Model of src/main.py: the package-index parser load_packages and the    *)
(* depth-bounded dependency-graph builder make_graph with its nested dfs,  *)
(* and the part of main that renders the returned graph with               *)
(* graph_to_plantuml and print_ascii_tree.                                 *)
(*                                                                         *)
(* A string is modelled as the sequence of its characters' code points    *)
(* (ord), so that the substring test `filter not in dep`, str.split() and  *)
(* re.sub are computed on every character Python distinguishes.            *)
(***************************************************************************)
EXTENDS Integers, Sequences, FiniteSets

VARIABLES
    root,       \* make_graph argument root
    packages,   \* make_graph argument packages / load_packages local packages
    fl,         \* make_graph argument fl (the filter substring)
    dep,        \* make_graph argument dep of the call in progress
    later,      \* dep arguments of the calls still to be made with the same inputs
    graph,      \* make_graph local graph
    seen,       \* make_graph local seen
    stack,      \* activation records of dfs or of a renderer, innermost last
    returned,   \* graphs returned by the finished calls, with their dep argument
    text,       \* load_packages: the lines of text.split("\n")
    pos,        \* load_packages: number of lines consumed by the for loop
    name,       \* load_packages: the local variable name (Unbound before assignment)
    exc,        \* exception raised ("none" when there is none)
    ascii_tree, \* args.ascii_tree
    d_global,   \* the module-level list d that graph_to_plantuml extends
    grph,       \* the lines of the file grph.txt
    out,        \* the lines printed on standard output
    order,      \* for each set of graph, the order in which it is iterated
    pc          \* control position

vars == <<root, packages, fl, dep, later, graph, seen, stack, returned,
          text, pos, name, exc, ascii_tree, d_global, grph, out, order, pc>>

(***************************************************************************)
(* Bounds of the model.  RecursionLimit stands for the number of frames    *)
(* the interpreter leaves to a renderer before it raises RecursionError.   *)
(***************************************************************************)
MaxDepth == 3
MaxDeps == 2
MaxLines == 3
RecursionLimit == 6

(***************************************************************************)
(* Strings.                                                                *)
(***************************************************************************)
foo == <<102, 111, 111>>    \* foo
bar == <<98, 97, 114>>    \* bar
baz == <<98, 97, 122>>    \* baz
lib == <<108, 105, 98>>    \* lib
gcc == <<103, 99, 99>>    \* gcc

SmallNames == {foo, bar, baz}
Names == {foo, bar, baz, lib, gcc}

EmptyStr == <<>>
\* the empty filter, ba and x
Filters == {EmptyStr, <<98, 97>>, <<120>>}

\* Python `sub in s` on strings.
Contains(sub, s) ==
    \E i \in 1..(Len(s) - Len(sub) + 1) : SubSeq(s, i, i + Len(sub) - 1) = sub

(***************************************************************************)
(* Dictionaries of sets (packages, graph).                                 *)
(***************************************************************************)
EmptyDict == [n \in {} |-> {}]

\* d[k] = v
Put(d, k, v) == [n \in (DOMAIN d) \cup {k} |-> IF n = k THEN v ELSE d[n]]

\* d.get(k, set())
Get(d, k) == IF k \in DOMAIN d THEN d[k] ELSE {}

(***************************************************************************)
(* Inputs of make_graph.                                                   *)
(***************************************************************************)
DefaultDepth == 5
DefaultFilter == EmptyStr

Depths == (-1..MaxDepth) \cup {DefaultDepth}

\* every relation over the small names with at most MaxDeps dependencies each
SmallRelations ==
    [SmallNames -> {S \in SUBSET SmallNames : Cardinality(S) <= MaxDeps}]

\* the index of the worked example: foo -> bar, baz; bar -> baz; baz
SpecExample ==
    [n \in SmallNames |-> IF n = foo THEN {bar, baz}
                          ELSE IF n = bar THEN {baz} ELSE {}]

\* the worked example with one more level below baz
DeepExample ==
    [n \in SmallNames |-> IF n = foo THEN {bar, baz}
                          ELSE IF n = bar THEN {baz} ELSE {lib}]

\* lib is reachable from foo directly and through bar and baz
LongShort ==
    [n \in {foo, bar, baz, lib} |->
        IF n = foo THEN {bar, lib}
        ELSE IF n = bar THEN {baz}
        ELSE IF n = baz THEN {lib} ELSE {gcc}]

\* two packages that depend on each other
Cycle == [n \in {foo, bar} |-> IF n = foo THEN {bar} ELSE {foo}]

Relations == SmallRelations \cup {DeepExample, LongShort, Cycle}

(***************************************************************************)
(* Index text.  text is the list text.split("\n"): it has at least one     *)
(* line, and a line is a string without "\n".                              *)
(***************************************************************************)
Unbound == <<>>

PackageLabel == <<80, 97, 99, 107, 97, 103, 101, 58>>    \* Package:
DependsLabel == <<68, 101, 112, 101, 110, 100, 115, 58>>    \* Depends:
PreDependsLabel == <<80, 114, 101, 45, 68, 101, 112, 101, 110, 100, 115, 58>>    \* Pre-Depends:
AnyQualifier == <<58, 97, 110, 121>>    \* :any

\* the lines the texts are made of
LineAlphabet ==
    {
      \* Package: foo
      <<80, 97, 99, 107, 97, 103, 101, 58, 32, 102, 111, 111>>,
      \* Package: bar
      <<80, 97, 99, 107, 97, 103, 101, 58, 32, 98, 97, 114>>,
      \* Package:
      <<80, 97, 99, 107, 97, 103, 101, 58>>,
      \* (the empty line)
      <<>>,
      \* Depends: bar (>= 1.0), baz
      <<68, 101, 112, 101, 110, 100, 115, 58, 32, 98, 97, 114, 32, 40, 62, 61, 32, 49, 46, 48, 41, 44, 32, 98, 97, 122>>,
      \* Pre-Depends: baz:any
      <<80, 114, 101, 45, 68, 101, 112, 101, 110, 100, 115, 58, 32, 98, 97, 122, 58, 97, 110, 121>>,
      \* Depends: bar (>= 1.0) | baz (<< 2)
      <<68, 101, 112, 101, 110, 100, 115, 58, 32, 98, 97, 114, 32, 40, 62, 61, 32, 49, 46, 48, 41, 32, 124, 32, 98, 97, 122, 32, 40, 60, 60, 32, 50, 41>>,
      \* Depends: bar:amd64, baz
      <<68, 101, 112, 101, 110, 100, 115, 58, 32, 98, 97, 114, 58, 97, 109, 100, 54, 52, 44, 32, 98, 97, 122>>,
      \* Version: 1.0
      <<86, 101, 114, 115, 105, 111, 110, 58, 32, 49, 46, 48>>
    }

RECURSIVE SeqsOfLen(_, _)
SeqsOfLen(S, n) ==
    IF n = 0 THEN {<<>>}
    ELSE {Append(s, x) : s \in SeqsOfLen(S, n - 1), x \in S}

Texts == UNION {SeqsOfLen(LineAlphabet, n) : n \in 1..MaxLines}

\* characters of the pattern and of its replacement
Space == 32
LParen == 40
RParen == 41
Comma == 44
Pipe == 124

\* the characters str.split() splits on, those with str.isspace():
\* \t \n \v \f \r, U+001C..U+001F, space, U+0085, U+00A0, U+1680,
\* U+2000..U+200A, U+2028, U+2029, U+202F, U+205F, U+3000
Whitespace ==
    (9..13) \cup (28..31) \cup {Space, 133, 160, 5760}
    \cup (8192..8202) \cup {8232, 8233, 8239, 8287, 12288}

\* s[i:].startswith(p), i counted from 1
StartsWithAt(s, i, p) ==
    /\ i + Len(p) - 1 <= Len(s)
    /\ SubSeq(s, i, i + Len(p) - 1) = p

RECURSIVE SplitFrom(_, _, _, _)
SplitFrom(s, i, word, words) ==
    LET closed == IF word = <<>> THEN words ELSE Append(words, word)
    IN  IF i > Len(s) THEN closed
        ELSE IF s[i] \in Whitespace THEN SplitFrom(s, i + 1, <<>>, closed)
        ELSE SplitFrom(s, i + 1, Append(word, s[i]), words)

\* s.split()
Split(s) == SplitFrom(s, 1, <<>>, <<>>)

\* `\([^,]+\)` tried at the ( in position i: [^,]+ is greedy, so the match
\* ends at the last ) of the comma-free stretch after the (, with at
\* least one character in between; 0 when there is none
ParenEnd(s, i) ==
    LET ends == {j \in (i + 2)..Len(s) :
                    /\ s[j] = RParen
                    /\ \A k \in (i + 1)..j : s[k] # Comma}
    IN  IF ends = {} THEN 0
        ELSE CHOOSE j \in ends : \A k \in ends : k <= j

\* length of the match of (Pre-|)Depends:|:any|,|\||\([^,]+\) at position i,
\* 0 when the pattern does not match there
MatchLen(s, i) ==
    IF StartsWithAt(s, i, PreDependsLabel) THEN Len(PreDependsLabel)
    ELSE IF StartsWithAt(s, i, DependsLabel) THEN Len(DependsLabel)
    ELSE IF StartsWithAt(s, i, AnyQualifier) THEN Len(AnyQualifier)
    ELSE IF s[i] \in {Comma, Pipe} THEN 1
    ELSE IF s[i] = LParen /\ ParenEnd(s, i) # 0 THEN ParenEnd(s, i) - i + 1
    ELSE 0

\* re.sub(pattern, ' ', s) from position i on: leftmost matches, left to right
RECURSIVE SubFrom(_, _)
SubFrom(s, i) ==
    IF i > Len(s) THEN <<>>
    ELSE IF MatchLen(s, i) > 0 THEN <<Space>> \o SubFrom(s, i + MatchLen(s, i))
    ELSE <<s[i]>> \o SubFrom(s, i + 1)

\* line.startswith('Package:')
IsPackageLine(line) == StartsWithAt(line, 1, PackageLabel)

\* re.match(r'(Pre-|)Depends:', line)
IsDependsLine(line) ==
    StartsWithAt(line, 1, PreDependsLabel) \/ StartsWithAt(line, 1, DependsLabel)

\* set(re.sub(r'(Pre-|)Depends:|:any|,|\||\([^,]+\)', ' ', line).split())
DepNames(line) ==
    LET words == Split(SubFrom(line, 1))
    IN  {words[i] : i \in DOMAIN words}

(***************************************************************************)
(* make_graph and dfs.                                                     *)
(***************************************************************************)
\* variant: the test written as `if depth >= 0:`
TruthyFromZero(depth) == depth >= 0

\* `if depth:` -- an int is true unless it is 0
Truthy(depth) == depth # 0

\* variant: the recursive call passes depth on unchanged
DeeperSame(depth) == depth

\* the argument of the recursive call, `depth - 1`
Deeper(depth) == depth - 1

\* variant: the operands of `in` swapped, `dep not in filter`
FilteredSwapped(filter, d) == Contains(d, filter)

\* `filter not in dep` is false: dep is passed over
Filtered(filter, d) == Contains(filter, d)

\* variant: the test on seen left out
FinishedAlways(d, sn) == TRUE

\* variant: the test made on graph, `if dep in graph`
FinishedIfEntered(d, sn) == d \in DOMAIN graph

\* `if dep in seen`
Finished(d, sn) == d \in sn

\* graph[name].add(dep) guarded by `if dep in seen`
Link(g, n, d, sn) == IF Finished(d, sn) THEN Put(g, n, g[n] \cup {d}) ELSE g

Frame(n, depth) == [name |-> n, depth |-> depth, todo |-> Get(packages, n)]

Top == stack[Len(stack)]

\* the for loop of the innermost dfs moves past d
Advance(d) == [stack EXCEPT ![Len(stack)].todo = @ \ {d}]

ParseIdle == /\ text = <<EmptyStr>> /\ pos = 0 /\ name = Unbound /\ exc = "none"

StartWbs == <<64, 115, 116, 97, 114, 116, 119, 98, 115>>    \* @startwbs
EndWbs == <<64, 101, 110, 100, 119, 98, 115>>    \* @endwbs

\* d = ["@startwbs"] at module level; nothing written or printed yet
RenderIdle ==
    /\ ascii_tree = "off" /\ d_global = <<StartWbs>> /\ grph = <<>> /\ out = <<>>
    /\ order = EmptyDict

InitBuild ==
    /\ root \in Names
    /\ packages \in Relations
    /\ fl \in Filters
    /\ dep \in Depths
    /\ later \in {<<dep>>, <<dep + 1>>}
    /\ graph = EmptyDict
    /\ seen = {}
    /\ stack = <<>>
    /\ returned = <<>>
    /\ ParseIdle
    /\ RenderIdle
    /\ pc = "start"

\* seen = set(); graph = {}; dfs(root) up to the first statement of its body
Call ==
    /\ pc = "start"
    /\ seen' = {}
    /\ IF Truthy(dep)
       THEN /\ graph' = Put(EmptyDict, root, {})
            /\ stack' = <<Frame(root, dep)>>
            /\ pc' = "dfs"
       ELSE /\ graph' = EmptyDict
            /\ stack' = <<>>
            /\ pc' = "return"
    /\ UNCHANGED <<ascii_tree, d_global, grph, out, order>>
    /\ UNCHANGED <<root, packages, fl, dep, later, returned, text, pos, name, exc>>

\* the loop reaches a dep that contains the filter
Skip ==
    /\ pc = "dfs"
    /\ \E d \in Top.todo :
        /\ Filtered(fl, d)
        /\ stack' = Advance(d)
    /\ UNCHANGED <<ascii_tree, d_global, grph, out, order>>
    /\ UNCHANGED <<root, packages, fl, dep, later, graph, seen, returned,
                   text, pos, name, exc, pc>>

\* dep is new and the callee has depth left: it gets its entry and its own loop
Descend ==
    /\ pc = "dfs"
    /\ \E d \in Top.todo :
        /\ ~Filtered(fl, d)
        /\ d \notin DOMAIN graph
        /\ Truthy(Deeper(Top.depth))
        /\ graph' = Put(graph, d, {})
        /\ stack' = Append(Advance(d), Frame(d, Deeper(Top.depth)))
    /\ UNCHANGED <<ascii_tree, d_global, grph, out, order>>
    /\ UNCHANGED <<root, packages, fl, dep, later, seen, returned,
                   text, pos, name, exc, pc>>

\* dep is new but the callee is out of depth: it returns at once
Exhausted ==
    /\ pc = "dfs"
    /\ \E d \in Top.todo :
        /\ ~Filtered(fl, d)
        /\ d \notin DOMAIN graph
        /\ ~Truthy(Deeper(Top.depth))
        /\ graph' = Link(graph, Top.name, d, seen)
        /\ stack' = Advance(d)
    /\ UNCHANGED <<ascii_tree, d_global, grph, out, order>>
    /\ UNCHANGED <<root, packages, fl, dep, later, seen, returned,
                   text, pos, name, exc, pc>>

\* dep already has an entry: no call, only the test on seen
Revisit ==
    /\ pc = "dfs"
    /\ \E d \in Top.todo :
        /\ ~Filtered(fl, d)
        /\ d \in DOMAIN graph
        /\ graph' = Link(graph, Top.name, d, seen)
        /\ stack' = Advance(d)
    /\ UNCHANGED <<ascii_tree, d_global, grph, out, order>>
    /\ UNCHANGED <<root, packages, fl, dep, later, seen, returned,
                   text, pos, name, exc, pc>>

\* the loop is over: seen.add(name), return, and the caller tests `dep in seen`
Finish ==
    /\ pc = "dfs"
    /\ Top.todo = {}
    /\ seen' = seen \cup {Top.name}
    /\ stack' = SubSeq(stack, 1, Len(stack) - 1)
    /\ IF Len(stack) > 1
       THEN /\ graph' = Link(graph, stack[Len(stack) - 1].name, Top.name, seen')
            /\ pc' = pc
       ELSE /\ graph' = graph
            /\ pc' = "return"
    /\ UNCHANGED <<ascii_tree, d_global, grph, out, order>>
    /\ UNCHANGED <<root, packages, fl, dep, later, returned, text, pos, name, exc>>

\* return graph; the caller then calls again with the same root, packages and fl
Return ==
    /\ pc = "return"
    /\ returned' = Append(returned, [dep |-> dep, graph |-> graph])
    /\ IF later = <<>>
       THEN /\ pc' = "done"
            /\ UNCHANGED <<dep, later>>
       ELSE /\ pc' = "start"
            /\ dep' = Head(later)
            /\ later' = Tail(later)
    /\ UNCHANGED <<ascii_tree, d_global, grph, out, order>>
    /\ UNCHANGED <<root, packages, fl, graph, seen, stack, text, pos, name, exc>>

Next == Call \/ Skip \/ Descend \/ Exhausted \/ Revisit \/ Finish \/ Return

Spec == InitBuild /\ [][Next]_vars

\* a single call, for the termination property
InitOnce ==
    /\ root \in Names
    /\ packages \in Relations
    /\ fl \in Filters
    /\ dep \in Depths
    /\ later = <<>>
    /\ graph = EmptyDict
    /\ seen = {}
    /\ stack = <<>>
    /\ returned = <<>>
    /\ ParseIdle
    /\ RenderIdle
    /\ pc = "start"

\* the interpreter always takes the next step of a call in progress
FairSpec == InitOnce /\ [][Next]_vars /\ WF_vars(Next)

(***************************************************************************)
(* load_packages.                                                          *)
(***************************************************************************)
BuildIdle ==
    /\ root = foo /\ fl = DefaultFilter /\ dep = DefaultDepth /\ later = <<>>
    /\ graph = EmptyDict /\ seen = {} /\ stack = <<>> /\ returned = <<>>

InitParse ==
    /\ text \in Texts
    /\ pos = 0
    /\ packages = EmptyDict
    /\ name = Unbound
    /\ exc = "none"
    /\ BuildIdle
    /\ RenderIdle
    /\ pc = "load"

CurLine == text[pos + 1]

\* name = line.split()[1]; packages[name] = set()
LoadPackage ==
    /\ pc = "load" /\ pos < Len(text)
    /\ IsPackageLine(CurLine)
    /\ Len(Split(CurLine)) >= 2
    /\ name' = Split(CurLine)[2]
    /\ packages' = Put(packages, name', {})
    /\ pos' = pos + 1
    /\ UNCHANGED <<ascii_tree, d_global, grph, out, order>>
    /\ UNCHANGED <<root, fl, dep, later, graph, seen, stack, returned, text, exc, pc>>

\* line.split()[1] on a Package: line without a second word
LoadPackageNoName ==
    /\ pc = "load" /\ pos < Len(text)
    /\ IsPackageLine(CurLine)
    /\ Len(Split(CurLine)) < 2
    /\ exc' = "IndexError"
    /\ pc' = "raised"
    /\ UNCHANGED <<ascii_tree, d_global, grph, out, order>>
    /\ UNCHANGED <<root, packages, fl, dep, later, graph, seen, stack, returned,
                   text, pos, name>>

\* packages[name] |= set(deps.split())
LoadDepends ==
    /\ pc = "load" /\ pos < Len(text)
    /\ ~IsPackageLine(CurLine) /\ IsDependsLine(CurLine)
    /\ name # Unbound
    /\ packages' = Put(packages, name, packages[name] \cup DepNames(CurLine))
    /\ pos' = pos + 1
    /\ UNCHANGED <<ascii_tree, d_global, grph, out, order>>
    /\ UNCHANGED <<root, fl, dep, later, graph, seen, stack, returned, text, name, exc, pc>>

\* packages[name] when no Package: line has assigned name yet
LoadDependsUnbound ==
    /\ pc = "load" /\ pos < Len(text)
    /\ ~IsPackageLine(CurLine) /\ IsDependsLine(CurLine)
    /\ name = Unbound
    /\ exc' = "UnboundLocalError"
    /\ pc' = "raised"
    /\ UNCHANGED <<ascii_tree, d_global, grph, out, order>>
    /\ UNCHANGED <<root, packages, fl, dep, later, graph, seen, stack, returned,
                   text, pos, name>>

\* any other line
LoadOther ==
    /\ pc = "load" /\ pos < Len(text)
    /\ ~IsPackageLine(CurLine) /\ ~IsDependsLine(CurLine)
    /\ pos' = pos + 1
    /\ UNCHANGED <<ascii_tree, d_global, grph, out, order>>
    /\ UNCHANGED <<root, packages, fl, dep, later, graph, seen, stack, returned,
                   text, name, exc, pc>>

\* return packages
LoadReturn ==
    /\ pc = "load" /\ pos = Len(text)
    /\ pc' = "loaded"
    /\ UNCHANGED <<ascii_tree, d_global, grph, out, order>>
    /\ UNCHANGED <<root, packages, fl, dep, later, graph, seen, stack, returned,
                   text, pos, name, exc>>

NextParse == LoadPackage \/ LoadPackageNoName \/ LoadDepends \/ LoadDependsUnbound
             \/ LoadOther \/ LoadReturn

SpecParse == InitParse /\ [][NextParse]_vars

(***************************************************************************)
(* main from the test `args.package in packs` on: the arguments have       *)
(* passed validate_args, so max_depth >= 0, and packs is the relation.     *)
(***************************************************************************)
Star == 42
Absent == <<1055, 1072, 1082, 1077, 1090, 32, 1086, 1090, 1089, 1091, 1090, 1089, 1090, 1074, 1091, 1077, 1090>>    \* the message of the else branch
TreeIndent == <<32, 32, 9500, 9472, 32>>    \* two spaces, U+251C, U+2500, space

InitMain ==
    /\ root \in Names
    /\ packages \in Relations
    /\ fl \in Filters
    /\ dep \in {x \in Depths : x >= 0}
    /\ later = <<>>
    /\ graph = EmptyDict
    /\ seen = {}
    /\ stack = <<>>
    /\ returned = <<>>
    /\ ParseIdle
    /\ ascii_tree \in {"off", "on"}
    /\ d_global = <<StartWbs>>
    /\ grph = <<>>
    /\ out = <<>>
    /\ order = EmptyDict
    /\ pc = "main"

\* the lists a set can be iterated as
Orderings(S) ==
    {f \in [1..Cardinality(S) -> S] : \A i, j \in DOMAIN f : f[i] = f[j] => i = j}

\* activation record of graph_to_plantuml or print_ascii_tree; todo is what
\* is left of `for dep in graph.get(root, [])`, in the set's iteration order
RenderFrame(o, r, prefix) ==
    [name |-> r, prefix |-> prefix, todo |-> IF r \in DOMAIN o THEN o[r] ELSE <<>>]

\* the for loop of the innermost renderer moves to its next element
RenderAdvance == [stack EXCEPT ![Len(stack)].todo = Tail(@)]

\* `if args.package in packs:` holds: make_graph is called
MainPresent ==
    /\ pc = "main"
    /\ root \in DOMAIN packages
    /\ pc' = "start"
    /\ UNCHANGED <<root, packages, fl, dep, later, graph, seen, stack, returned,
                   text, pos, name, exc, ascii_tree, d_global, grph, out, order>>

\* else: print of the message that the package is absent
MainAbsent ==
    /\ pc = "main"
    /\ root \notin DOMAIN packages
    /\ out' = Append(out, Absent)
    /\ pc' = "exit0"
    /\ UNCHANGED <<root, packages, fl, dep, later, graph, seen, stack, returned,
                   text, pos, name, exc, ascii_tree, d_global, grph, order>>

\* open("grph.txt", 'w') empties the file; graph_to_plantuml(graph, args.package)
\* runs its first statement, d += [prefix + " " + root], with prefix "*".
\* The sets of graph are not changed from here on, so each of them is
\* iterated in one order, whichever it is, every time a renderer reaches it.
PlantumlCall ==
    /\ pc = "done"
    /\ grph' = <<>>
    /\ d_global' = Append(d_global, (<<Star>> \o <<Space>>) \o root)
    /\ order' \in [DOMAIN graph -> UNION {Orderings(graph[p]) : p \in DOMAIN graph}]
    /\ \A p \in DOMAIN graph : order'[p] \in Orderings(graph[p])
    /\ stack' = <<RenderFrame(order', root, <<Star>>)>>
    /\ pc' = "plantuml"
    /\ UNCHANGED <<root, packages, fl, dep, later, graph, seen, returned,
                   text, pos, name, exc, ascii_tree, out>>

\* the loop calls graph_to_plantuml(graph, dep, prefix + "*"); a call past the
\* recursion limit raises RecursionError, which unwinds every frame up to
\* main's `except Exception`, and error() ends the program with status 2
PlantumlDep ==
    /\ pc = "plantuml"
    /\ Top.todo # <<>>
    /\ LET n == Head(Top.todo) IN
        IF Len(stack) >= RecursionLimit
        THEN /\ exc' = "RecursionError"
             /\ stack' = <<>>
             /\ pc' = "exit2"
             /\ UNCHANGED d_global
        ELSE /\ d_global' = Append(d_global, ((Top.prefix \o <<Star>>) \o <<Space>>) \o n)
             /\ stack' = Append(RenderAdvance, RenderFrame(order, n, Top.prefix \o <<Star>>))
             /\ UNCHANGED <<exc, pc>>
    /\ UNCHANGED <<root, packages, fl, dep, later, graph, seen, returned,
                   text, pos, name, ascii_tree, grph, out, order>>

\* the loop of the innermost graph_to_plantuml is over: it returns
PlantumlReturn ==
    /\ pc = "plantuml"
    /\ Top.todo = <<>>
    /\ stack' = SubSeq(stack, 1, Len(stack) - 1)
    /\ pc' = IF Len(stack) > 1 THEN pc ELSE "endwbs"
    /\ UNCHANGED <<root, packages, fl, dep, later, graph, seen, returned,
                   text, pos, name, exc, ascii_tree, d_global, grph, out, order>>

\* d += ["@endwbs"]; f.write("\n".join(d)); print("\n".join(d) + "\n");
\* then `if args.ascii_tree == "on":`
WriteWbs ==
    /\ pc = "endwbs"
    /\ d_global' = Append(d_global, EndWbs)
    /\ grph' = d_global'
    /\ out' = (out \o d_global') \o <<EmptyStr>>
    /\ pc' = IF ascii_tree = "on" THEN "tree" ELSE "exit0"
    /\ UNCHANGED <<root, packages, fl, dep, later, graph, seen, stack, returned,
                   text, pos, name, exc, ascii_tree, order>>

\* print_ascii_tree(graph, args.package) runs print(prefix + root) with prefix ""
AsciiCall ==
    /\ pc = "tree"
    /\ out' = Append(out, EmptyStr \o root)
    /\ stack' = <<RenderFrame(order, root, EmptyStr)>>
    /\ pc' = "ascii"
    /\ UNCHANGED <<root, packages, fl, dep, later, graph, seen, returned,
                   text, pos, name, exc, ascii_tree, d_global, grph, order>>

\* the loop calls print_ascii_tree(graph, dep, prefix + indent), or the call
\* raises RecursionError as in graph_to_plantuml
AsciiDep ==
    /\ pc = "ascii"
    /\ Top.todo # <<>>
    /\ LET n == Head(Top.todo) IN
        IF Len(stack) >= RecursionLimit
        THEN /\ exc' = "RecursionError"
             /\ stack' = <<>>
             /\ pc' = "exit2"
             /\ UNCHANGED out
        ELSE /\ out' = Append(out, (Top.prefix \o TreeIndent) \o n)
             /\ stack' = Append(RenderAdvance, RenderFrame(order, n, Top.prefix \o TreeIndent))
             /\ UNCHANGED <<exc, pc>>
    /\ UNCHANGED <<root, packages, fl, dep, later, graph, seen, returned,
                   text, pos, name, ascii_tree, d_global, grph, order>>

\* the loop of the innermost print_ascii_tree is over: it returns, main ends
AsciiReturn ==
    /\ pc = "ascii"
    /\ Top.todo = <<>>
    /\ stack' = SubSeq(stack, 1, Len(stack) - 1)
    /\ pc' = IF Len(stack) > 1 THEN pc ELSE "exit0"
    /\ UNCHANGED <<root, packages, fl, dep, later, graph, seen, returned,
                   text, pos, name, exc, ascii_tree, d_global, grph, out, order>>

NextMain ==
    \/ MainPresent \/ MainAbsent
    \/ Call \/ Skip \/ Descend \/ Exhausted \/ Revisit \/ Finish \/ Return
    \/ PlantumlCall \/ PlantumlDep \/ PlantumlReturn \/ WriteWbs
    \/ AsciiCall \/ AsciiDep \/ AsciiReturn

\* the interpreter always takes the next step of a program that has one
FairMain == InitMain /\ [][NextMain]_vars /\ WF_vars(NextMain)

(***************************************************************************)
(* Vocabulary of the properties.                                           *)
(***************************************************************************)
Keys(g) == DOMAIN g
Targets(g) == UNION {g[p] : p \in DOMAIN g}

RECURSIVE Descendants(_, _, _)
Descendants(g, S, k) ==
    IF k = 0 THEN S
    ELSE Descendants(g, S \cup UNION {Get(g, x) : x \in S}, k - 1)

Acyclic(g) ==
    \A n \in DOMAIN g : n \notin Descendants(g, g[n], Cardinality(Names))

TwoCycle ==
    \E b \in Names \ {root} :
        /\ Get(packages, root) = {b}
        /\ Get(packages, b) = {root}

Results == {returned[i] : i \in DOMAIN returned}

\* a Depends:/Pre-Depends: line with no Package: line before it
DependsFirst ==
    \E i \in DOMAIN text :
        /\ IsDependsLine(text[i])
        /\ \A j \in 1..(i - 1) : ~IsPackageLine(text[j])

(***************************************************************************)
(* C1: with the empty filter no dependency is skipped; for the worked      *)
(* example, build("foo", relation, 5, "") returns the relation itself.     *)
(***************************************************************************)
C1_EmptyFilterKeepsAll ==
    \A r \in Results :
        (fl = EmptyStr /\ root = foo /\ packages = SpecExample /\ r.dep = DefaultDepth)
            => r.graph = SpecExample

(***************************************************************************)
(* C2: with a non-empty filter, a name that contains the filter is never   *)
(* an edge target and never a key of a returned graph.                     *)
(***************************************************************************)
C2_FilterExclusion ==
    \A r \in Results : \A n \in Names :
        (fl # EmptyStr /\ Contains(fl, n))
            => (n \notin Targets(r.graph) /\ n \notin Keys(r.graph))

\* C2 as amended: ... and never a key unless it is the root, which is
\* expanded without being tested against the filter.
C2_FilterExclusionButRoot ==
    \A r \in Results : \A n \in Names :
        (fl # EmptyStr /\ Contains(fl, n))
            => (n \notin Targets(r.graph) /\ (n \in Keys(r.graph) => n = root))

C2_Witness ==
    /\ pc = "done" /\ fl # EmptyStr
    /\ Contains(fl, root)
    /\ \E d \in Get(packages, root) : d # root /\ Contains(fl, d)
    /\ \E r \in Results : root \in Keys(r.graph)

(***************************************************************************)
(* C3: depth monotonicity: for d >= 0 the keys of the graph built with     *)
(* maxDepth d are among the keys of the graph built with maxDepth d + 1,   *)
(* whatever the iteration orders.                                          *)
(***************************************************************************)
C3_DepthMonotone ==
    (pc = "done" /\ Len(returned) = 2
        /\ returned[1].dep >= 0 /\ returned[2].dep = returned[1].dep + 1)
      => Keys(returned[1].graph) \subseteq Keys(returned[2].graph)

(***************************************************************************)
(* C4: edge inclusion: at every point of a traversal every edge target is  *)
(* in seen; packages still being expanded on the current path, and         *)
(* packages that never got an entry, are the target of no edge.            *)
(***************************************************************************)
C4_EdgeInclusion ==
    /\ \A p \in Keys(graph) : graph[p] \subseteq seen
    /\ seen \subseteq Keys(graph)
    /\ \A i \in DOMAIN stack : stack[i].name \notin Targets(graph)
    /\ \A r \in Results : Targets(r.graph) \subseteq Keys(r.graph)

C4_Witness ==
    /\ pc = "dfs"
    /\ Targets(graph) # {}
    /\ \E p \in seen : \E d \in Get(packages, p) :
          ~Filtered(fl, d) /\ d \notin graph[p] /\ d \in Keys(graph) \ seen
    /\ \E p \in Keys(graph) : \E d \in Get(packages, p) :
          ~Filtered(fl, d) /\ d \notin Keys(graph) /\ d \notin Top.todo
                           /\ p = Top.name /\ Top.depth = 1

(***************************************************************************)
(* C5: every call with maxDepth >= 0 returns, cyclic relation or not, and  *)
(* for a root in a two-package cycle the returned graph has at most        *)
(* maxDepth keys (stated here for every filter, the empty one included).   *)
(***************************************************************************)
C5_CycleTermination ==
    (dep >= 0) ~> (/\ pc = "done"
                   /\ \A r \in Results :
                        (TwoCycle /\ r.dep >= 0) => Cardinality(Keys(r.graph)) <= r.dep)

C5_Witness ==
    /\ pc = "done" /\ TwoCycle /\ fl = EmptyStr
    /\ \E r \in Results : r.dep >= 1 /\ Keys(r.graph) # {}

(***************************************************************************)
(* C6: zero depth: a call with maxDepth 0 gives the root no entry, marks   *)
(* nothing visited and returns the empty graph.                            *)
(***************************************************************************)
C6_ZeroDepth ==
    /\ (pc \in {"dfs", "return"} /\ dep = 0) => (graph = EmptyDict /\ seen = {})
    /\ \A r \in Results : r.dep = 0 => r.graph = EmptyDict

C6_Witness ==
    /\ \E r \in Results : r.dep = 0
    /\ fl # EmptyStr /\ ~Contains(fl, root)
    /\ \E d \in Get(packages, root) : ~Contains(fl, d)

(***************************************************************************)
(* C7: a call with maxDepth < 0 returns the empty graph, as maxDepth 0.    *)
(***************************************************************************)
C7_NegativeDepthIsZero ==
    \A r \in Results : r.dep < 0 => r.graph = EmptyDict

(***************************************************************************)
(* C8: two calls with identical root, relation, maxDepth and filter return *)
(* identical graphs, whatever the iteration orders.                        *)
(***************************************************************************)
C8_Idempotent ==
    (pc = "done" /\ Len(returned) = 2 /\ returned[1].dep = returned[2].dep)
      => returned[1].graph = returned[2].graph

(***************************************************************************)
(* C9: a text with a Depends:/Pre-Depends: line before any Package: line   *)
(* makes load_packages fail with a ParseError and return no relation.      *)
(***************************************************************************)
C9_DependsFirstIsParseError ==
    (DependsFirst /\ pc \in {"loaded", "raised"})
      => (pc = "raised" /\ exc = "ParseError")

(***************************************************************************)
(* C10: the graph is acyclic at every point of main and when returned; an  *)
(* edge (p, d) is only added while p is unfinished and d is finished; an   *)
(* entry is created for a package once in a call; no package is on the dfs *)
(* path twice; and the recursion of graph_to_plantuml and print_ascii_tree *)
(* over the returned graph ends without RecursionError: main returns.      *)
(***************************************************************************)
C10_State ==
    /\ Acyclic(graph)
    /\ \A r \in Results : Acyclic(r.graph)
    /\ pc = "dfs" => \A i, j \in DOMAIN stack : stack[i].name = stack[j].name => i = j
    /\ exc # "RecursionError"

C10_Step ==
    /\ \A p \in DOMAIN graph' : \A n \in graph'[p] \ Get(graph, p) :
          p \notin seen' /\ n \in seen'
    /\ (pc = "dfs" /\ pc' = "dfs") =>
          \A p \in DOMAIN graph : p \in DOMAIN graph' /\ graph[p] \subseteq graph'[p]

C10_Acyclic == [](C10_State) /\ [][C10_Step]_vars /\ <>(pc = "exit0")

C10_Witness ==
    /\ pc = "exit0" /\ ascii_tree = "on"
    /\ ~Acyclic(packages)
    /\ root \in Get(packages, root)
    /\ Cardinality(Keys(graph)) = 3
    /\ Cardinality(Targets(graph)) = 2
    /\ Len(grph) > 4 /\ Len(out) = Len(grph) + 4

====
